---- MODULE Spec2Model ----
(***************************************************************************)
(* Resize geometry and the client render/encode step of image-resize.      *)
(*                                                                         *)
(*  - computeTargetSize (src/lib/image/resize.ts) is a pure function; it   *)
(*    is an operator here, one sub-operator per branch of the code.        *)
(*  - renderAndEncode (same file) is modelled as the synchronous prefix    *)
(*    up to its first await, followed by the awaits of canvasToBlobSafe.   *)
(*                                                                         *)
(* Arithmetic.  The code works on IEEE-754 doubles.  A quotient of two     *)
(* integers is correctly rounded, so Math.round of a single division is   *)
(* the exact nearest integer (Round).  The two-step forms a * (b / c) and  *)
(* a / (b / c) round b / c first; RoundMul and RoundDiv give the integer   *)
(* Math.round returns for them, which differs from the exact nearest       *)
(* integer only when a*b/c (resp. a*c/b) is an exact tie x.5: the double   *)
(* may then come out one ulp low, e.g. 9 / (18 / 7) = 3.4999999999999996.  *)
(***************************************************************************)
EXTENDS Integers, Sequences, FiniteSets, TLC

\* ---------------------------------------------------------------- bounds
MaxDim == 8      \* sizes tried on computeTargetSize called directly
MaxBitmap == 3   \* bitmap width/height tried on renderAndEncode
MaxTarget == 4   \* target width/height tried on renderAndEncode

\* ------------------------------------------------------- program values
Null == 0        \* targetH: number | null; real heights are >= 1
WHITE_BG == "#ffffff"
Modes == {"inside", "cover", "pad", "fill"}
Formats == {"keep", "jpeg", "png", "webp"}
ACCEPTED_MIMES == {"image/jpeg", "image/png", "image/webp"}

Max(a, b) == IF a >= b THEN a ELSE b
Min(a, b) == IF a <= b THEN a ELSE b

\* Math.round(n / d) for d > 0: the nearest integer, ties towards +infinity.
Round(n, d) == (2 * n + d) \div (2 * d)

\* Math.floor(n / d), used by the faulty variants only.
Floor(n, d) == n \div d

Pow2(k) == 2 ^ k

\* The binary exponent of the positive quotient n / d:
\* the e with 2^e <= n / d < 2^(e + 1).
RECURSIVE ILog2(_, _)
ILog2(n, d) ==
    IF n >= 2 * d THEN 1 + ILog2(n, 2 * d)
    ELSE IF n < d THEN ILog2(2 * n, d) - 1
    ELSE 0

\* (x * 2^s) mod m.
RECURSIVE MulPow2Mod(_, _, _)
MulPow2Mod(x, s, m) ==
    IF s = 0 THEN x % m ELSE MulPow2Mod((2 * x) % m, s - 1, m)

\* The double b / c (53-bit significand, round to nearest, ties to even):
\* with e = ILog2(b, c) and s = 52 - e it is (b * 2^s + delta) / (c * 2^s).
\* The value is <<delta, e>>.
DivErr(b, c) ==
    LET e   == ILog2(b, c)
        r2  == MulPow2Mod(b, 52 - e, 2 * c)
        rem == r2 % c
        odd == r2 >= c
        up  == 2 * rem > c \/ (2 * rem = c /\ odd)
    IN  <<IF rem = 0 THEN 0 ELSE IF up THEN c - rem ELSE 0 - rem, e>>

\* Math.round(a * (b / c)).  Off a tie the rounding error of b / c is far
\* too small to cross x.5.  On a tie a*b/c = k + 1/2 the product is
\* k + 1/2 + a*delta / (c * 2^s); it rounds to the double k + 1/2 (and
\* Math.round gives k + 1) unless it lies more than half a spacing below.
RoundMul(a, b, c) ==
    IF (2 * a * b) % (2 * c) # c THEN Round(a * b, c)
    ELSE LET k  == (2 * a * b - c) \div (2 * c)
             de == DivErr(b, c)
             g  == ILog2(2 * k + 1, 2) - de[2] - 1 - (IF k = 0 THEN 1 ELSE 0)
             lo == a * (0 - de[1])
         IN  IF de[1] >= 0 THEN k + 1
             ELSE IF (IF g >= 0 THEN lo <= c * Pow2(g) ELSE lo * Pow2(0 - g) <= c)
                  THEN k + 1
                  ELSE k

\* Math.round(a / (b / c)).  On a tie a*c/b = k + 1/2 the quotient falls
\* below k + 1/2 when b / c was rounded up by more than half a spacing.
RoundDiv(a, b, c) ==
    IF (2 * a * c) % (2 * b) # b THEN Round(a * c, b)
    ELSE LET k  == (2 * a * c - b) \div (2 * b)
             de == DivErr(b, c)
             g  == ILog2(2 * k + 1, 2) - de[2] - (IF k = 0 THEN 1 ELSE 0)
             hi == de[1] * (2 * k + 1)
         IN  IF de[1] <= 0 THEN k + 1
             ELSE IF (IF g >= 0 THEN b * Pow2(g) >= hi ELSE b >= hi * Pow2(0 - g))
                  THEN k + 1
                  ELSE k

Draw(sx, sy, sw, sh, dx, dy, dw, dh) ==
    [sx |-> sx, sy |-> sy, sw |-> sw, sh |-> sh,
     dx |-> dx, dy |-> dy, dw |-> dw, dh |-> dh]

TargetSizeResult(outW, outH, draw) == [outW |-> outW, outH |-> outH, draw |-> draw]

\* ------------------------------------------------------ computeTargetSize
\* Faulty variant: the height is truncated instead of rounded.
widthOnlyTruncates(srcW, srcH, targetW) ==
    LET h == Max(1, Floor(targetW * srcH, srcW))
    IN  TargetSizeResult(targetW, h, Draw(0, 0, srcW, srcH, 0, 0, targetW, h))

\* targetH === null: width-based, aspect ratio preserved.
widthOnly(srcW, srcH, targetW) ==
    LET h == Max(1, Round(targetW * srcH, srcW))
    IN  TargetSizeResult(targetW, h, Draw(0, 0, srcW, srcH, 0, 0, targetW, h))

\* Faulty variant: fill keeps the aspect ratio on the height.
fillKeepsRatio(srcW, srcH, targetW, targetH) ==
    LET h == Max(1, Round(targetW * srcH, srcW))
    IN  TargetSizeResult(targetW, h, Draw(0, 0, srcW, srcH, 0, 0, targetW, h))

\* Faulty variant: the destination rectangle is transposed.
fillTransposed(srcW, srcH, targetW, targetH) ==
    TargetSizeResult(targetW, targetH,
                     Draw(0, 0, srcW, srcH, 0, 0, targetH, targetW))

\* mode === "fill": distort to the exact target.
fill(srcW, srcH, targetW, targetH) ==
    TargetSizeResult(targetW, targetH,
                     Draw(0, 0, srcW, srcH, 0, 0, targetW, targetH))

\* srcRatio > dstRatio, i.e. srcW / srcH > targetW / targetH.
srcRatioGreater(srcW, srcH, targetW, targetH) ==
    srcW * targetH > targetW * srcH

\* Faulty variant: the crop is computed with the inverse destination ratio.
coverInverseRatio(srcW, srcH, targetW, targetH) ==
    IF srcRatioGreater(srcW, srcH, targetW, targetH)
    THEN LET sw == RoundMul(srcH, targetH, targetW)
             sx == Round(srcW - sw, 2)
         IN  TargetSizeResult(targetW, targetH,
                              Draw(sx, 0, sw, srcH, 0, 0, targetW, targetH))
    ELSE LET sh == RoundDiv(srcW, targetH, targetW)
             sy == Round(srcH - sh, 2)
         IN  TargetSizeResult(targetW, targetH,
                              Draw(0, sy, srcW, sh, 0, 0, targetW, targetH))

\* mode === "cover": crop the source to the destination ratio
\* dstRatio = targetW / targetH.
cover(srcW, srcH, targetW, targetH) ==
    IF srcRatioGreater(srcW, srcH, targetW, targetH)
    THEN LET sw == RoundMul(srcH, targetW, targetH)
             sx == Round(srcW - sw, 2)
         IN  TargetSizeResult(targetW, targetH,
                              Draw(sx, 0, sw, srcH, 0, 0, targetW, targetH))
    ELSE LET sh == RoundDiv(srcW, targetW, targetH)
             sy == Round(srcH - sh, 2)
         IN  TargetSizeResult(targetW, targetH,
                              Draw(0, sy, srcW, sh, 0, 0, targetW, targetH))

\* scale = Math.min(targetW / srcW, targetH / srcH), as <<numerator, denominator>>.
scale(srcW, srcH, targetW, targetH) ==
    IF targetW * srcH <= targetH * srcW
    THEN <<targetW, srcW>>
    ELSE <<targetH, srcH>>

\* Faulty variant: Math.max instead of Math.min picks the scale.
scaleMax(srcW, srcH, targetW, targetH) ==
    IF targetW * srcH >= targetH * srcW
    THEN <<targetW, srcW>>
    ELSE <<targetH, srcH>>

\* Faulty variant: inside scales by the larger factor (the box is overflowed).
insideOverflows(srcW, srcH, targetW, targetH) ==
    LET s == scaleMax(srcW, srcH, targetW, targetH)
        outW == Max(1, RoundMul(srcW, s[1], s[2]))
        outH == Max(1, RoundMul(srcH, s[1], s[2]))
    IN  TargetSizeResult(outW, outH, Draw(0, 0, srcW, srcH, 0, 0, outW, outH))

\* mode === "inside": fit within the box, the output adopts the fitted size.
inside(srcW, srcH, targetW, targetH) ==
    LET s == scale(srcW, srcH, targetW, targetH)
        outW == Max(1, RoundMul(srcW, s[1], s[2]))
        outH == Max(1, RoundMul(srcH, s[1], s[2]))
    IN  TargetSizeResult(outW, outH, Draw(0, 0, srcW, srcH, 0, 0, outW, outH))

\* Faulty variant: dy is computed from dw (copied from the dx line).
padVerticalFromWidth(srcW, srcH, targetW, targetH) ==
    LET s == scale(srcW, srcH, targetW, targetH)
        dw == Max(1, RoundMul(srcW, s[1], s[2]))
        dh == Max(1, RoundMul(srcH, s[1], s[2]))
        dx == Round(targetW - dw, 2)
        dy == Round(targetH - dw, 2)
    IN  TargetSizeResult(targetW, targetH, Draw(0, 0, srcW, srcH, dx, dy, dw, dh))

\* mode === "pad" (the remaining case): fitted image centred on targetW x targetH.
pad(srcW, srcH, targetW, targetH) ==
    LET s == scale(srcW, srcH, targetW, targetH)
        dw == Max(1, RoundMul(srcW, s[1], s[2]))
        dh == Max(1, RoundMul(srcH, s[1], s[2]))
        dx == Round(targetW - dw, 2)
        dy == Round(targetH - dh, 2)
    IN  TargetSizeResult(targetW, targetH, Draw(0, 0, srcW, srcH, dx, dy, dw, dh))

computeTargetSize(srcW, srcH, targetW, targetH, mode) ==
    IF targetH = Null THEN widthOnly(srcW, srcH, targetW)
    ELSE IF mode = "fill" THEN fill(srcW, srcH, targetW, targetH)
    ELSE IF mode = "cover" THEN cover(srcW, srcH, targetW, targetH)
    ELSE IF mode = "inside" THEN inside(srcW, srcH, targetW, targetH)
    ELSE pad(srcW, srcH, targetW, targetH)

\* --------------------------------------------------------- renderAndEncode
pickOutputMime(inputMime, format) ==
    IF format = "keep" THEN inputMime
    ELSE IF format = "jpeg" THEN "image/jpeg"
    ELSE IF format = "png" THEN "image/png"
    ELSE IF format = "webp" THEN "image/webp"
    ELSE inputMime

\* Faulty variant: only the width is clamped.
safeTargetWidthOnly(targetW, targetH, srcW, srcH, allowEnlarge) ==
    IF allowEnlarge THEN <<targetW, targetH>>
    ELSE <<Min(targetW, srcW), targetH>>

\* Faulty variant: the guard is inverted (clamps when enlarging is allowed).
safeTargetInverted(targetW, targetH, srcW, srcH, allowEnlarge) ==
    IF ~allowEnlarge THEN <<targetW, targetH>>
    ELSE <<Min(targetW, srcW),
           IF targetH # Null THEN Min(targetH, srcH) ELSE targetH>>

\* <<safeTargetW, safeTargetH>>: the targets clamped to the source when
\* upscaling is disabled.
safeTarget(targetW, targetH, srcW, srcH, allowEnlarge) ==
    IF allowEnlarge THEN <<targetW, targetH>>
    ELSE <<Min(targetW, srcW),
           IF targetH # Null THEN Min(targetH, srcH) ELSE targetH>>

\* Faulty variant: white is painted for pad only.
mustPaintWhitePadOnly(mode, requestedMime) == mode = "pad"

mustPaintWhite(mode, requestedMime) ==
    mode = "pad" \/ requestedMime = "image/jpeg"

\* Faulty variant: the probe's answer is ignored.
finalMimeIgnoresProbe(supported, requested) == requested

\* canvasToBlobSafe's finalMime = supported ? requestedMime : "image/png".
finalMimeOf(supported, requested) ==
    IF supported THEN requested ELSE "image/png"

\* A decimal fraction with two digits, n / 100.
Hundredths(n) == [num |-> n, den |-> 100]

\* Faulty variant: 4 is mapped to 0.80.
mapQuality01Typo(qualityScale) ==
    IF qualityScale = 1 THEN Hundredths(40)
    ELSE IF qualityScale = 2 THEN Hundredths(60)
    ELSE IF qualityScale = 3 THEN Hundredths(75)
    ELSE IF qualityScale = 4 THEN Hundredths(80)
    ELSE IF qualityScale = 5 THEN Hundredths(92)
    ELSE Hundredths(75)

\* Quality scale 1..5 -> canvas encoder quality 0..1.
mapQuality01(qualityScale) ==
    IF qualityScale = 1 THEN Hundredths(40)
    ELSE IF qualityScale = 2 THEN Hundredths(60)
    ELSE IF qualityScale = 3 THEN Hundredths(75)
    ELSE IF qualityScale = 4 THEN Hundredths(85)
    ELSE IF qualityScale = 5 THEN Hundredths(92)
    ELSE Hundredths(75)

\* MIME -> file extension.
extFromMime(mime) ==
    IF mime = "image/jpeg" THEN "jpg"
    ELSE IF mime = "image/png" THEN "png"
    ELSE IF mime = "image/webp" THEN "webp"
    ELSE "png"

\* The position of the last "." of a string, 0 when it has none.
RECURSIVE lastDot(_, _)
lastDot(name, i) ==
    IF i = 0 THEN 0
    ELSE IF SubSeq(name, i, i) = "." THEN i
    ELSE lastDot(name, i - 1)

\* Faulty variant: everything from the first dot on is dropped.
baseNameOfFirstDot(filename) ==
    LET dots == {i \in 1..(Len(filename) - 1) : SubSeq(filename, i, i) = "."}
    IN  IF dots = {} THEN filename
        ELSE SubSeq(filename, 1, (CHOOSE i \in dots : \A j \in dots : i <= j) - 1)

\* filename.replace(/\.[^.]+$/, ""): a last dot followed by at least one
\* character is cut off with what follows it.
baseNameOf(filename) ==
    LET i == lastDot(filename, Len(filename))
    IN  IF i > 0 /\ i < Len(filename) THEN SubSeq(filename, 1, i - 1) ELSE filename

\* `${baseNameOf(file.name)}_${outW}x${outH}.${ext}`
itemFilename(name, outW, outH, ext) ==
    baseNameOf(name) \o "_" \o ToString(outW) \o "x" \o ToString(outH) \o "." \o ext

\* ------------------------------------------------------ server endpoint
\* route.ts.  JavaScript values of the form: form.get answers null for a
\* field that was not sent and a string for one that was.
JsNull == [t |-> "null", s |-> ""]
JsUndefined == [t |-> "undefined", s |-> ""]
Str(s) == [t |-> "string", s |-> s]

MAX_FILES == 20
MAX_SIZE_PER_FILE == 15 * 1024 * 1024
ALLOWED_MIMES == {"image/jpeg", "image/png", "image/webp", "image/avif"}
ServerFormats == {"jpeg", "png", "webp", "avif"}
Downloads == {"zip", "json"}
NoFormat == ""   \* format: undefined; like undefined it is falsy in `if (format)`

emptyToUndefined(v) == IF v = Str("") \/ v = JsNull THEN JsUndefined ELSE v

\* form.get(x) ?? undefined
orUndefined(v) == IF v = JsNull THEN JsUndefined ELSE v

UpperCase == "ABCDEFGHIJKLMNOPQRSTUVWXYZ"
LowerCase == "abcdefghijklmnopqrstuvwxyz"

RECURSIVE toLowerCase(_)
toLowerCase(s) ==
    IF s = "" THEN ""
    ELSE LET c == SubSeq(s, 1, 1)
             up == {k \in 1..26 : SubSeq(UpperCase, k, k) = c}
             lc == IF up = {} THEN c
                   ELSE LET k == CHOOSE k \in up : TRUE IN SubSeq(LowerCase, k, k)
         IN  lc \o toLowerCase(SubSeq(s, 2, Len(s)))

parseBool(v) == v.t = "string" /\ toLowerCase(v.s) = "true"

\* Number(v) of z.coerce.number(), on null, undefined, and strings that are
\* empty, all decimal digits, or not numeric: [nan, n].
DecimalDigits == "0123456789"
NaN == [nan |-> TRUE, n |-> 0]
Num(n) == [nan |-> FALSE, n |-> n]

RECURSIVE digitsValue(_, _)
digitsValue(s, acc) ==
    IF s = "" THEN Num(acc)
    ELSE LET ds == {d \in 0..9 : SubSeq(DecimalDigits, d + 1, d + 1) = SubSeq(s, 1, 1)}
         IN  IF ds = {} THEN NaN
             ELSE digitsValue(SubSeq(s, 2, Len(s)), 10 * acc + (CHOOSE d \in ds : TRUE))

Number(v) ==
    IF v.t = "undefined" THEN NaN
    ELSE IF v.t = "null" THEN Num(0)
    ELSE digitsValue(v.s, 0)

\* The outcome of one schema field.
Valid(value) == [ok |-> TRUE, value |-> value]
Invalid == [ok |-> FALSE, value |-> 0]

\* z.coerce.number().int().min(lo).max(hi); a string of digits is an integer
coerceNumber(v, lo, hi) ==
    LET x == Number(v)
    IN  IF ~x.nan /\ lo <= x.n /\ x.n <= hi THEN Valid(x.n) ELSE Invalid

\* z.coerce.number().int().min(lo).max(hi).default(dflt): the default
\* replaces undefined only.
coerceNumberDefault(v, lo, hi, dflt) ==
    IF v = JsUndefined THEN Valid(dflt) ELSE coerceNumber(v, lo, hi)

\* z.coerce.number().int().min(lo).max(hi).optional()
coerceNumberOptional(v, lo, hi) ==
    IF v = JsUndefined THEN Valid(Null) ELSE coerceNumber(v, lo, hi)

\* z.enum(values).optional(), undefined kept as `absent`
enumOptional(v, values, absent) ==
    IF v = JsUndefined THEN Valid(absent)
    ELSE IF v.t = "string" /\ v.s \in values THEN Valid(v.s)
    ELSE Invalid

\* z.enum(values).default(dflt)
enumDefault(v, values, dflt) == enumOptional(v, values, dflt)

FormFields ==
    {"width", "height", "mode", "format", "qualityScale", "download", "allowEnlarge"}

\* schema.safeParse({ width: form.get("width"), ... })
safeParse(form) ==
    LET f == [width |-> coerceNumber(emptyToUndefined(form.width), 1, 8000),
              height |-> coerceNumberOptional(emptyToUndefined(form.height), 1, 8000),
              mode |-> enumDefault(orUndefined(form.mode), Modes, "inside"),
              format |-> enumOptional(orUndefined(form.format), ServerFormats, NoFormat),
              qualityScale |-> coerceNumberDefault(form.qualityScale, 1, 5, 3),
              download |-> enumDefault(orUndefined(form.download), Downloads, "zip"),
              allowEnlarge |-> Valid(parseBool(form.allowEnlarge))]
    IN  [success |-> \A k \in FormFields : f[k].ok,
         data |-> [k \in FormFields |-> f[k].value]]

\* Quality 1..5 -> encoder quality.
mapQuality(qualityScale) ==
    IF qualityScale = 1 THEN 40
    ELSE IF qualityScale = 2 THEN 60
    ELSE IF qualityScale = 3 THEN 75
    ELSE IF qualityScale = 4 THEN 85
    ELSE IF qualityScale = 5 THEN 92
    ELSE 75

outputExtension(format, inputMime) ==
    IF format # NoFormat THEN (IF format = "jpeg" THEN "jpg" ELSE format)
    ELSE IF inputMime = "image/jpeg" THEN "jpg"
    ELSE IF inputMime = "image/png" THEN "png"
    ELSE IF inputMime = "image/webp" THEN "webp"
    ELSE IF inputMime = "image/avif" THEN "avif"
    ELSE "png"

outputMimeFromExt(ext) == IF ext = "jpg" THEN "image/jpeg" ELSE "image/" \o ext

\* mode -> sharp fit
fitOf(mode) ==
    IF mode = "inside" THEN "inside"
    ELSE IF mode = "cover" THEN "cover"
    ELSE IF mode = "fill" THEN "fill"
    ELSE "contain"

\* The size of the image sharp's resize({ width, height, fit }) produces
\* from a srcW x srcH input that is at least as large as the target in both
\* dimensions, so that withoutEnlargement changes nothing: one dimension
\* given keeps the ratio, fit inside scales to fit within the box, the
\* other fits give exactly width x height.
sharpResize(srcW, srcH, width, height, fit) ==
    IF height = Null THEN [w |-> width, h |-> Max(1, Round(srcH * width, srcW))]
    ELSE IF fit = "inside"
    THEN IF width * srcH <= height * srcW
         THEN [w |-> width, h |-> Max(1, Round(srcH * width, srcW))]
         ELSE [w |-> Max(1, Round(srcW * height, srcH)), h |-> height]
    ELSE [w |-> width, h |-> height]

\* `${width}x${height ?? "auto"}`
sizeLabel(width, height) ==
    ToString(width) \o "x" \o (IF height = Null THEN "auto" ELSE ToString(height))

\* `${baseName}_${width}x${height ?? "auto"}.${ext}`
outName(name, width, height, ext) ==
    baseNameOf(name) \o "_" \o sizeLabel(width, height) \o "." \o ext

\* ------------------------------------------------------------- canvas ops
fillRect(style, x, y, w, h) ==
    [op |-> "fillRect", fillStyle |-> style, x |-> x, y |-> y, w |-> w, h |-> h]

drawImage(draw) == [op |-> "drawImage", draw |-> draw]

\* ------------------------------------------------------------------ state
VARIABLES
    pc,             \* where the running call stands
    params,         \* renderAndEncode's params (bitmap.width/height as srcW/srcH)
    args,           \* the arguments of the last computeTargetSize call
    layout,         \* its result {outW, outH, draw}
    requestedMime,  \* pickOutputMime(inputMime, outputFormat)
    canvas,         \* the output canvas: width, height and the calls on its context
    finalMime,      \* canvasToBlobSafe's finalMime
    result,         \* what renderAndEncode returned: mime, outW, outH
    error,          \* the message of the Error thrown, "" when none
    encoder,        \* what the browser's encoder answered: the probe's answer
                    \* and the canvas.toBlob calls of canvasToBlobSafe
    item            \* the record built from the result for file.name

itemVars == <<pc, params, args, layout, requestedMime, canvas, finalMime, result, error,
              encoder, item>>

\* The server endpoint (POST of route.ts), one request.
VARIABLES
    srvPc,          \* "idle", "files", "loop", "responded"
    form,           \* the option fields of the request's form data
    data,           \* parsed.data
    srvFiles,       \* form.getAll("files")
    srvIndex,       \* the position of `for (const file of files)`
    srvWork,        \* the files read and resized so far
    srvResults,     \* results
    response        \* the response returned

serverVars == <<srvPc, form, data, srvFiles, srvIndex, srvWork, srvResults, response>>

MaxUploads == 2  \* files of one request, besides the one request over MAX_FILES

NoForm == [k \in FormFields |-> JsNull]
NoData == [k \in FormFields |-> 0]
NoResponse == [status |-> 0, message |-> "", type |-> "", entries |-> <<>>]

\* What each field of the form is tried with.
Forms ==
    [width : {JsNull, Str(""), Str("800"), Str("0"), Str("8001"), Str("abc")},
     height : {JsNull, Str(""), Str("600"), Str("8001")},
     mode : {JsNull, Str("cover"), Str("pad"), Str("fill"), Str("stretch")},
     format : {JsNull, Str("jpeg"), Str("webp"), Str("keep")},
     qualityScale : {JsNull, Str(""), Str("3"), Str("6")},
     download : {JsNull, Str("json")},
     allowEnlarge : {JsNull, Str("TRUE"), Str("false")}]

\* Uploaded files; every image is larger than any target the forms ask for.
Upload(name, type, size) ==
    [name |-> name, type |-> type, size |-> size, width |-> 1600, height |-> 900]
UploadKinds ==
    {Upload("a.png", "image/png", 1000),
     Upload("a.b.jpeg", "image/jpeg", MAX_SIZE_PER_FILE),
     Upload("anim.gif", "image/gif", 1000),
     Upload("big.png", "image/png", MAX_SIZE_PER_FILE + 1)}
Uploads ==
    UNION {[1..n -> UploadKinds] : n \in 0..MaxUploads}
        \cup {[i \in 1..(MAX_FILES + 1) |-> Upload("a.png", "image/png", 1000)]}

\* processFilesInBatches (resize.ts), one call.
VARIABLES
    callPc,         \* "idle", "group" (awaiting Promise.all), "returned", "rejected"
    files,          \* params.files, by name
    batchSize,      \* params.batchSize
    start,          \* the loop variable of the group loop
    done,           \* the count of completed files
    results,        \* the items appended so far
    events,         \* the onProgress calls so far
    tasks,          \* per file, the async callback of batch.map
    settled,        \* the files in the order their callbacks settled
    rejection       \* the error the call rejected with

batchVars == <<callPc, files, batchSize, start, done, results, events, tasks, settled,
               rejection>>

MaxFiles == 4       \* files of one call
MaxBatchSize == 3   \* batchSize of one call

NoFileName == ""    \* currentFileName: undefined
NoRejection == [file |-> 0, message |-> ""]
NoValue == [source |-> ""]
NoTask == [stage |-> "pending", ops |-> <<>>, named |-> 0, value |-> NoValue,
           message |-> ""]

fileName(i) == "img" \o ToString(i) \o ".png"
FilesOf(n) == [i \in 1..n |-> fileName(i)]
BatchInputs == (0..MaxFiles) \X (0..MaxBatchSize)

\* mapQuality01 (canvas.ts) and mapQuality (route.ts) called on one scale.
VARIABLES
    quality         \* the scale and what each function returned for it

qualityVars == <<quality>>

MaxQualityScale == 60   \* scales tried: 0, the table 1..5, and beyond
QualityScales == 0..MaxQualityScale
NoQuality == [pc |-> "idle", scale |-> 0, client |-> Hundredths(0), server |-> 0]

\* The page (page.tsx): the selection, the results, and the invocations of
\* generatePreview and downloadZip.  Width 1000, no height, mode inside and
\* allowEnlarge false are the page's initial options and stay as they are.
VARIABLES
    pageFiles,      \* files
    pageFormat,     \* format
    items,          \* items
    pageError,      \* error ("" for null)
    progress,       \* progress
    runs,           \* the invocations of generatePreview and downloadZip so far
    downloads,      \* the archives handed to the browser for download
    adds,           \* the number of normalizeFileList calls so far
    removes,        \* the number of removeFile calls so far
    lastAdd         \* the list passed to normalizeFileList by the last step, if any

pageVars == <<pageFiles, pageFormat, items, pageError, progress, runs, downloads, adds,
              removes, lastAdd>>

MaxAdds == 2          \* normalizeFileList calls
MaxRemoves == 1       \* removeFile calls
MaxInvocations == 2   \* invocations of generatePreview and downloadZip

MIN_DIM == 1
MAX_DIM == 8000
CLIENT_MAX_FILES == 40
CLIENT_MAX_SIZE_PER_FILE == 50 * 1024 * 1024
DEFAULT_BATCH_SIZE == 5
PageWidth == 1000
PageHeight == Null
PageFormats == {"keep", "jpeg"}

IdleProgress == [phase |-> "idle", total |-> 0, done |-> 0, currentFileName |-> NoFileName]

\* Files the user can pick or drop; every image is 1600 x 900.
PickedFile(name, type, size) ==
    [name |-> name, type |-> type, size |-> size, width |-> 1600, height |-> 900]
APng == PickedFile("a.png", "image/png", 1000)
AJpg == PickedFile("a.jpg", "image/jpeg", CLIENT_MAX_SIZE_PER_FILE)
AGif == PickedFile("anim.gif", "image/gif", 1000)
BigPng == PickedFile("big.png", "image/png", CLIENT_MAX_SIZE_PER_FILE + 1)

\* a.png, a.jpg, and one more file than a group of processFilesInBatches has.
ManyFiles ==
    [i \in 1..(DEFAULT_BATCH_SIZE + 1) |->
        IF i = 1 THEN APng
        ELSE IF i = 2 THEN AJpg
        ELSE PickedFile("img" \o ToString(i) \o ".png", "image/png", 1000)]

\* The lists passed to normalizeFileList while invocations run.
AddLists == {ManyFiles, <<AGif>>}

\* The lists passed to normalizeFileList when the selection is checked: with
\* one or two files, with a file of a wrong type or too large, and with as
\* many files as the selection can hold, or one less.
SelectionLists ==
    {<<APng, AJpg>>, <<AJpg>>, <<APng, AGif>>, <<BigPng>>,
     [i \in 1..(CLIENT_MAX_FILES - 1) |-> APng], [i \in 1..CLIENT_MAX_FILES |-> APng]}

vars == <<itemVars, serverVars, batchVars, qualityVars, pageVars>>

NoDraw == Draw(0, 0, 0, 0, 0, 0, 0, 0)
NoLayout == TargetSizeResult(0, 0, NoDraw)
NoArgs == [srcW |-> 0, srcH |-> 0, targetW |-> 0, targetH |-> Null, mode |-> "inside"]
NoParams == [srcW |-> 0, srcH |-> 0, targetW |-> 0, targetH |-> Null, mode |-> "inside",
             outputFormat |-> "keep", inputMime |-> "", allowEnlarge |-> FALSE]
NoCanvas == [width |-> 0, height |-> 0, ops |-> <<>>]
NoResult == [mime |-> "", outW |-> 0, outH |-> 0]
NoEncoder == [probe |-> "pending", toBlob |-> <<>>]
NoItem == [name |-> "", filename |-> "", mime |-> ""]

\* File names: one extension, two extensions, none.
FileNames == {"photo.png", "a.tar.gz", "noext"}

\* The sizes of the spec's end-to-end scenarios A, B and C.
ScenarioArgs ==
    { [srcW |-> 1600, srcH |-> 900, targetW |-> 800, targetH |-> h, mode |-> m] :
        h \in {Null, 800}, m \in Modes }

\* Sizes at which a two-step double computation meets an exact tie:
\* 9 / (18 / 7), 11 * (15 / 22), 11 * (15 / 22) as srcH * scale.
TieSizes == { <<9, 4, 18, 7>>, <<8, 11, 15, 22>>, <<22, 11, 15, 8>> }

TieArgs ==
    { [srcW |-> t[1], srcH |-> t[2], targetW |-> t[3], targetH |-> t[4], mode |-> m] :
        t \in TieSizes, m \in Modes }

GeometryArgs ==
    [srcW : 1..MaxDim, srcH : 1..MaxDim, targetW : 1..MaxDim,
     targetH : {Null} \cup (1..MaxDim), mode : Modes]
    \cup ScenarioArgs \cup TieArgs

\* The spec's upscaling-guard example: src 500x500, target 1000x2000.
ScenarioParams ==
    [srcW : {500}, srcH : {500}, targetW : {1000}, targetH : {2000}, mode : Modes,
     outputFormat : {"keep"}, inputMime : {"image/png"}, allowEnlarge : BOOLEAN]

RenderParams ==
    [srcW : 1..MaxBitmap, srcH : 1..MaxBitmap, targetW : 1..MaxTarget,
     targetH : {Null} \cup (1..MaxTarget), mode : Modes,
     outputFormat : Formats, inputMime : ACCEPTED_MIMES, allowEnlarge : BOOLEAN]
    \cup ScenarioParams

Init ==
    /\ pc = "idle"
    /\ params = NoParams
    /\ args = NoArgs
    /\ layout = NoLayout
    /\ requestedMime = ""
    /\ canvas = NoCanvas
    /\ finalMime = ""
    /\ result = NoResult
    /\ error = ""
    /\ encoder = NoEncoder
    /\ item = NoItem
    /\ srvPc = "idle"
    /\ form = NoForm
    /\ data = NoData
    /\ srvFiles = <<>>
    /\ srvIndex = 0
    /\ srvWork = <<>>
    /\ srvResults = <<>>
    /\ response = NoResponse
    /\ callPc = "idle"
    /\ files = <<>>
    /\ batchSize = 1
    /\ start = 0
    /\ done = 0
    /\ results = <<>>
    /\ events = <<>>
    /\ tasks = <<>>
    /\ settled = <<>>
    /\ rejection = NoRejection
    /\ quality = NoQuality
    /\ pageFiles = <<>>
    /\ pageFormat = "keep"
    /\ items = <<>>
    /\ pageError = ""
    /\ progress = IdleProgress
    /\ runs = <<>>
    /\ downloads = <<>>
    /\ adds = 0
    /\ removes = 0
    /\ lastAdd = <<>>

\* A direct call of the exported computeTargetSize.
computeTargetSizeCall ==
    /\ pc = "idle"
    /\ srvPc = "idle"
    /\ \E a \in GeometryArgs :
          /\ args' = a
          /\ layout' = computeTargetSize(a.srcW, a.srcH, a.targetW, a.targetH, a.mode)
    /\ pc' = "layout"
    /\ UNCHANGED <<params, requestedMime, canvas, finalMime, result, error, encoder,
                   item>>
    /\ UNCHANGED <<serverVars, batchVars, qualityVars, pageVars>>

\* renderAndEncode up to its first await: clamp, pick the mime, compute the
\* layout, create the canvas, paint the background, draw.  getContext("2d")
\* may return null, which throws before anything is painted.
renderAndEncode ==
    /\ pc = "idle"
    /\ srvPc = "idle"
    /\ \E p \in RenderParams, ctx \in BOOLEAN :
          LET safe == safeTarget(p.targetW, p.targetH, p.srcW, p.srcH, p.allowEnlarge)
              mime == pickOutputMime(p.inputMime, p.outputFormat)
              l    == computeTargetSize(p.srcW, p.srcH, safe[1], safe[2], p.mode)
              bg   == IF mustPaintWhite(p.mode, mime)
                      THEN <<fillRect(WHITE_BG, 0, 0, l.outW, l.outH)>>
                      ELSE <<>>
          IN  /\ params' = p
              /\ args' = [srcW |-> p.srcW, srcH |-> p.srcH, targetW |-> safe[1],
                          targetH |-> safe[2], mode |-> p.mode]
              /\ requestedMime' = mime
              /\ layout' = l
              /\ IF ctx
                 THEN /\ canvas' = [width |-> l.outW, height |-> l.outH,
                                    ops |-> bg \o <<drawImage(l.draw)>>]
                      /\ pc' = "isMimeSupported"
                      /\ error' = ""
                 ELSE /\ canvas' = [width |-> l.outW, height |-> l.outH, ops |-> <<>>]
                      /\ pc' = "thrown"
                      /\ error' = "Canvas is not supported in this browser."
    /\ UNCHANGED <<finalMime, result, encoder, item>>
    /\ UNCHANGED <<serverVars, batchVars, qualityVars, pageVars>>

\* canvasToBlobSafe: the probe isMimeSupportedByCanvas(requestedMime) resolves.
isMimeSupportedByCanvas ==
    /\ pc = "isMimeSupported"
    /\ \E supported \in BOOLEAN :
          /\ finalMime' = finalMimeOf(supported, requestedMime)
          /\ encoder' = [encoder EXCEPT !.probe = IF supported THEN "yes" ELSE "no"]
    /\ pc' = "toBlob"
    /\ UNCHANGED <<params, args, layout, requestedMime, canvas, result, error, item>>
    /\ UNCHANGED <<serverVars, batchVars, qualityVars, pageVars>>

\* canvasToBlobSafe: canvas.toBlob(finalMime, quality01) calls back with a
\* blob or with null.
toBlob ==
    /\ pc = "toBlob"
    /\ \E blob \in BOOLEAN :
          /\ encoder' = [encoder EXCEPT
                            !.toBlob = Append(@, [mime |-> finalMime, blob |-> blob])]
          /\ IF blob
             THEN /\ result' = [mime |-> finalMime, outW |-> layout.outW,
                                outH |-> layout.outH]
                  /\ pc' = "returned"
             ELSE /\ result' = result
                  /\ pc' = "toBlobFallback"
    /\ UNCHANGED <<params, args, layout, requestedMime, canvas, finalMime, error, item>>
    /\ UNCHANGED <<serverVars, batchVars, qualityVars, pageVars>>

\* canvasToBlobSafe: the final canvas.toBlob("image/png") calls back.
toBlobFallback ==
    /\ pc = "toBlobFallback"
    /\ \E fallback \in BOOLEAN :
          /\ encoder' = [encoder EXCEPT
                            !.toBlob = Append(@, [mime |-> "image/png",
                                                  blob |-> fallback])]
          /\ IF fallback
             THEN /\ result' = [mime |-> "image/png", outW |-> layout.outW,
                                outH |-> layout.outH]
                  /\ pc' = "returned"
                  /\ error' = error
             ELSE /\ result' = result
                  /\ pc' = "thrown"
                  /\ error' = "Failed to encode the image."
    /\ UNCHANGED <<params, args, layout, requestedMime, canvas, finalMime, item>>
    /\ UNCHANGED <<serverVars, batchVars, qualityVars, pageVars>>

\* The item callback of processFilesInBatches after renderAndEncode returned:
\* the record for file.name is built (inputName is unused by renderAndEncode,
\* so the name is drawn here).
wrapItem ==
    /\ pc = "returned"
    /\ \E name \in FileNames :
          item' = [name |-> name,
                   filename |-> itemFilename(name, result.outW, result.outH,
                                             extFromMime(result.mime)),
                   mime |-> result.mime]
    /\ pc' = "item"
    /\ UNCHANGED <<params, args, layout, requestedMime, canvas, finalMime, result, error,
                   encoder>>
    /\ UNCHANGED <<serverVars, batchVars, qualityVars, pageVars>>

Next ==
    \/ computeTargetSizeCall
    \/ renderAndEncode
    \/ isMimeSupportedByCanvas
    \/ toBlob
    \/ toBlobFallback
    \/ wrapItem

Spec == Init /\ [][Next]_vars

\* ------------------------------------------------------- server actions
json(status, message) ==
    [status |-> status, message |-> message, type |-> "application/json",
     entries |-> <<>>]

\* zip.file(name, buffer): a name already in the archive is replaced.
zipFile(entries, name) ==
    IF \E i \in 1..Len(entries) : entries[i] = name THEN entries ELSE Append(entries, name)

RECURSIVE zipOf(_, _)
zipOf(rs, entries) ==
    IF rs = <<>> THEN entries
    ELSE zipOf(Tail(rs), zipFile(entries, Head(rs).filename))

\* POST up to the schema check: request.formData() and schema.safeParse.
POST ==
    /\ srvPc = "idle"
    /\ pc = "idle"
    /\ \/ \E f \in Forms :
            LET parsed == safeParse(f)
            IN  /\ form' = f
                /\ IF parsed.success
                   THEN /\ data' = parsed.data
                        /\ srvPc' = "files"
                        /\ response' = response
                   ELSE /\ data' = data
                        /\ srvPc' = "responded"
                        /\ response' = json(400, "Validation error")
       \/ \* formData() rejects: the body is not form data
          /\ srvPc' = "responded"
          /\ response' = json(500, "Failed to resize images.")
          /\ UNCHANGED <<form, data>>
    /\ UNCHANGED <<srvFiles, srvIndex, srvWork, srvResults>>
    /\ UNCHANGED <<itemVars, batchVars, qualityVars, pageVars>>

\* form.getAll("files") and the checks of the list.
getAllFiles ==
    /\ srvPc = "files"
    /\ \E list \in Uploads :
          /\ srvFiles' = list
          /\ IF Len(list) = 0
             THEN /\ srvPc' = "responded"
                  /\ response' = json(400, "No images received.")
                  /\ srvIndex' = srvIndex
             ELSE IF Len(list) > MAX_FILES
             THEN /\ srvPc' = "responded"
                  /\ response' = json(400, "Too many files.")
                  /\ srvIndex' = srvIndex
             ELSE /\ srvPc' = "loop"
                  /\ srvIndex' = 1
                  /\ response' = response
    /\ UNCHANGED <<form, data, srvWork, srvResults>>
    /\ UNCHANGED <<itemVars, batchVars, qualityVars, pageVars>>

\* One iteration of `for (const file of files)`: the two checks, then the
\* file is read, resized and encoded by sharp, and its result is pushed.
\* toBuffer() rejects for an input sharp cannot decode.
forFile ==
    /\ srvPc = "loop"
    /\ srvIndex <= Len(srvFiles)
    /\ LET file == srvFiles[srvIndex]
           ext == outputExtension(data.format, file.type)
           out == sharpResize(file.width, file.height, data.width, data.height,
                              fitOf(data.mode))
           read == Append(srvWork, [file |-> srvIndex, op |-> "read"])
           resized == Append(read, [file |-> srvIndex, op |-> "resize"])
       IN  IF file.type \notin ALLOWED_MIMES
           THEN /\ srvPc' = "responded"
                /\ response' = json(400, "Unsupported file type")
                /\ UNCHANGED <<srvIndex, srvWork, srvResults>>
           ELSE IF file.size > MAX_SIZE_PER_FILE
           THEN /\ srvPc' = "responded"
                /\ response' = json(400, "File too large")
                /\ UNCHANGED <<srvIndex, srvWork, srvResults>>
           ELSE \/ /\ srvWork' = resized
                   /\ srvResults' =
                         Append(srvResults,
                                [filename |-> outName(file.name, data.width, data.height,
                                                      ext),
                                 mime |-> outputMimeFromExt(ext),
                                 quality |-> mapQuality(data.qualityScale),
                                 width |-> out.w, height |-> out.h])
                   /\ srvIndex' = srvIndex + 1
                   /\ UNCHANGED <<srvPc, response>>
                \/ /\ srvWork' = resized
                   /\ srvPc' = "responded"
                   /\ response' = json(500, "Failed to resize images.")
                   /\ UNCHANGED <<srvIndex, srvResults>>
    /\ UNCHANGED <<form, data, srvFiles>>
    /\ UNCHANGED <<itemVars, batchVars, qualityVars, pageVars>>

\* After the loop: the archive, or the JSON list of data URLs.
respond ==
    /\ srvPc = "loop"
    /\ srvIndex > Len(srvFiles)
    /\ srvPc' = "responded"
    /\ response' =
          IF data.download = "zip"
          THEN [status |-> 200, message |-> "", type |-> "application/zip",
                entries |-> zipOf(srvResults, <<>>)]
          ELSE [status |-> 200, message |-> "", type |-> "application/json",
                entries |-> [i \in 1..Len(srvResults) |-> srvResults[i].filename]]
    /\ UNCHANGED <<form, data, srvFiles, srvIndex, srvWork, srvResults>>
    /\ UNCHANGED <<itemVars, batchVars, qualityVars, pageVars>>

ServerNext ==
    \/ POST
    \/ getAllFiles
    \/ forFile
    \/ respond

SpecServer == Init /\ [][ServerNext]_vars

\* Either side, one per behaviour: the browser pipeline or the endpoint.
SpecNaming == Init /\ [][Next \/ ServerNext]_vars

\* -------------------------------------------------------- quality mapping
mapQuality01Call ==
    /\ quality.pc = "idle"
    /\ \E s \in QualityScales :
          quality' = [quality EXCEPT !.pc = "client", !.scale = s,
                                     !.client = mapQuality01(s)]
    /\ UNCHANGED <<itemVars, serverVars, batchVars, pageVars>>

mapQualityCall ==
    /\ quality.pc = "client"
    /\ quality' = [quality EXCEPT !.pc = "server", !.server = mapQuality(quality.scale)]
    /\ UNCHANGED <<itemVars, serverVars, batchVars, pageVars>>

QualityNext ==
    \/ mapQuality01Call
    \/ mapQualityCall

SpecQuality == Init /\ [][QualityNext]_vars

\* ------------------------------------------------- processFilesInBatches
DECODE_ERROR == "The source image could not be decoded."
CANVAS_ERROR == "Canvas is not supported in this browser."
ENCODE_ERROR == "Failed to encode the image."

Progress(total, d, name) == [total |-> total, done |-> d, currentFileName |-> name]

\* files.slice(first, first + size), as positions first+1 .. of the list
sliceLast(first, size, n) == Min(first + size, n)

\* Faulty variant: the events before the items do not name the file.
startEventsUnnamed(total, d, names, first, last) ==
    [k \in 1..(last - first) |-> Progress(total, d, NoFileName)]

\* Faulty variant: each callback counts the files started before it as done.
startEventsCounting(total, d, names, first, last) ==
    [k \in 1..(last - first) |-> Progress(total, d + k - 1, names[first + k])]

\* The onProgress calls of the callbacks of one group, in the order
\* batch.map starts them.
startEvents(total, d, names, first, last) ==
    [k \in 1..(last - first) |-> Progress(total, d, names[first + k])]

\* Faulty variant: done starts again from 0 in each group.
completionEventsPerGroup(total, d, count) ==
    [k \in 1..count |-> Progress(total, k, NoFileName)]

\* The onProgress calls of the loop over batchResults.
completionEvents(total, d, count) ==
    [k \in 1..count |-> Progress(total, d + k, NoFileName)]

\* Faulty variant: the group counts as fulfilled once one callback is.
promiseAllFirstFulfilled(ts, first, last) ==
    IF \E i \in (first + 1)..last : ts[i].stage = "rejected" THEN "rejected"
    ELSE IF last = first \/ \E i \in (first + 1)..last : ts[i].stage = "fulfilled"
    THEN "fulfilled"
    ELSE "pending"

\* Faulty variant: a rejected callback does not reject the group.
promiseAllNeverRejects(ts, first, last) ==
    IF \A i \in (first + 1)..last : ts[i].stage \in {"fulfilled", "rejected"}
    THEN "fulfilled"
    ELSE "pending"

\* Faulty variant: the group is never fulfilled.
promiseAllStaysPending(ts, first, last) ==
    IF \E i \in (first + 1)..last : ts[i].stage = "rejected" THEN "rejected"
    ELSE "pending"

\* Promise.all over the callbacks of the group: rejected as soon as one
\* is, fulfilled once all are.
promiseAll(ts, first, last) ==
    IF \E i \in (first + 1)..last : ts[i].stage = "rejected" THEN "rejected"
    ELSE IF \A i \in (first + 1)..last : ts[i].stage = "fulfilled" THEN "fulfilled"
    ELSE "pending"

\* batchResults: the values of the group in the order of the input.
batchResults(ts, first, last) == [k \in 1..(last - first) |-> ts[first + k].value]

\* Faulty variant: each result goes to the front of the list.
pushAllFront(list, rs) == [k \in 1..Len(rs) |-> rs[Len(rs) + 1 - k]] \o list

\* results.push(r) for every r of batchResults
pushAll(list, rs) == list \o rs

\* Faulty variant: the bitmap is closed on the success path only.
closeOnSuccess(task, threw) ==
    IF threw THEN task ELSE [task EXCEPT !.ops = Append(@, "close")]

\* try { ... } finally { bitmap.close() }
finallyClose(task, threw) == [task EXCEPT !.ops = Append(@, "close")]

\* The group loop from its condition on: the callbacks of the next group
\* are started (each reports its file, then calls createImageBitmap), or the
\* call returns.
loopFrom(first, d, evs, ts) ==
    LET n == Len(files')
        last == sliceLast(first, batchSize', n)
    IN  /\ start' = first
        /\ IF first < n
           THEN /\ callPc' = "group"
                /\ events' = evs \o startEvents(n, d, files', first, last)
                /\ tasks' = [i \in 1..n |->
                               IF first < i /\ i <= last
                               THEN [ts[i] EXCEPT !.stage = "decoding",
                                                  !.named = Len(evs) + i - first]
                               ELSE ts[i]]
           ELSE /\ callPc' = "returned"
                /\ events' = evs
                /\ tasks' = ts

\* The call, up to its first await.
processFilesInBatches ==
    /\ callPc = "idle"
    /\ \E in \in BatchInputs :
          /\ files' = FilesOf(in[1])
          /\ batchSize' = in[2]
          /\ done' = 0
          /\ results' = <<>>
          /\ loopFrom(0, 0, <<Progress(in[1], 0, NoFileName)>>, [i \in 1..in[1] |-> NoTask])
    /\ UNCHANGED <<settled, rejection>>
    /\ UNCHANGED <<itemVars, serverVars, qualityVars, pageVars>>

\* The callback of file i settles: the call, if it still awaits the group,
\* rejects with the first error of the group.
settle(i, task) ==
    LET ts == [tasks EXCEPT ![i] = task]
        last == sliceLast(start, batchSize, Len(files))
    IN  /\ tasks' = ts
        /\ settled' = Append(settled, i)
        /\ IF callPc = "group" /\ promiseAll(ts, start, last) = "rejected"
           THEN /\ callPc' = "rejected"
                /\ rejection' = [file |-> i, message |-> task.message]
           ELSE UNCHANGED <<callPc, rejection>>
        /\ UNCHANGED <<files, batchSize, start, done, results, events>>

\* createImageBitmap(file) resolves and renderAndEncode runs up to its
\* await: it draws the bitmap, or throws for want of a 2D context.
createImageBitmapResolves ==
    /\ \E i \in 1..Len(files) :
          /\ tasks[i].stage = "decoding"
          /\ \/ /\ tasks' = [tasks EXCEPT ![i].stage = "rendering",
                                          ![i].ops = <<"decode", "draw">>]
                /\ UNCHANGED <<callPc, files, batchSize, start, done, results, events,
                               settled, rejection>>
             \/ settle(i, finallyClose([tasks[i] EXCEPT !.stage = "rejected",
                                                        !.ops = <<"decode">>,
                                                        !.message = CANVAS_ERROR],
                                       TRUE))
    /\ UNCHANGED <<itemVars, serverVars, qualityVars, pageVars>>

\* createImageBitmap(file) rejects: no bitmap, nothing to close.
createImageBitmapRejects ==
    /\ \E i \in 1..Len(files) :
          /\ tasks[i].stage = "decoding"
          /\ settle(i, [tasks[i] EXCEPT !.stage = "rejected", !.message = DECODE_ERROR])
    /\ UNCHANGED <<itemVars, serverVars, qualityVars, pageVars>>

\* renderAndEncode resolves: the item is built and the bitmap closed.
renderAndEncodeResolves ==
    /\ \E i \in 1..Len(files) :
          /\ tasks[i].stage = "rendering"
          /\ settle(i, finallyClose([tasks[i] EXCEPT !.stage = "fulfilled",
                                                     !.value = [source |-> files[i]]],
                                    FALSE))
    /\ UNCHANGED <<itemVars, serverVars, qualityVars, pageVars>>

\* renderAndEncode rejects (no encoder produced a blob): the bitmap is closed.
renderAndEncodeRejects ==
    /\ \E i \in 1..Len(files) :
          /\ tasks[i].stage = "rendering"
          /\ settle(i, finallyClose([tasks[i] EXCEPT !.stage = "rejected",
                                                     !.message = ENCODE_ERROR],
                                    TRUE))
    /\ UNCHANGED <<itemVars, serverVars, qualityVars, pageVars>>

\* Promise.all fulfilled: the results of the group are appended, done is
\* advanced and reported once per result, and the loop goes on.
groupFulfilled ==
    /\ callPc = "group"
    /\ LET last == sliceLast(start, batchSize, Len(files))
           rs == batchResults(tasks, start, last)
       IN  /\ promiseAll(tasks, start, last) = "fulfilled"
           /\ results' = pushAll(results, rs)
           /\ done' = done + Len(rs)
           /\ UNCHANGED <<files, batchSize>>
           /\ loopFrom(start + batchSize, done + Len(rs),
                       events \o completionEvents(Len(files), done, Len(rs)), tasks)
    /\ UNCHANGED <<settled, rejection>>
    /\ UNCHANGED <<itemVars, serverVars, qualityVars, pageVars>>

BatchNext ==
    \/ processFilesInBatches
    \/ createImageBitmapResolves
    \/ createImageBitmapRejects
    \/ renderAndEncodeResolves
    \/ renderAndEncodeRejects
    \/ groupFulfilled

SpecBatch == Init /\ [][BatchNext]_vars

\* The decode and encode calls of the browser complete, and a continuation
\* that can run does run.
BatchFairness ==
    /\ WF_vars(createImageBitmapResolves \/ createImageBitmapRejects)
    /\ WF_vars(renderAndEncodeResolves \/ renderAndEncodeRejects)
    /\ WF_vars(groupFulfilled)

SpecBatchFair == Init /\ [][BatchNext]_vars /\ BatchFairness

\* ------------------------------------------------------------------ page
busy == progress.phase # "idle"

canRun(fs, width, height) ==
    /\ Len(fs) > 0
    /\ width # 0 /\ width >= MIN_DIM /\ width <= MAX_DIM
    /\ height # Null => (height >= MIN_DIM /\ height <= MAX_DIM)

\* arr.find(...): the first of the entries at the positions in bad, as a
\* sequence of 0 or 1
firstWith(arr, bad) ==
    IF bad = {} THEN <<>>
    ELSE <<arr[CHOOSE i \in bad : \A j \in bad : i <= j]>>

invalidType(f) == f.type \notin ACCEPTED_MIMES
tooBig(f) == f.size > CLIENT_MAX_SIZE_PER_FILE

\* Faulty variant: the invalid files are dropped and the others are added.
normalizedFiltering(current, arr) ==
    LET ok == SelectSeq(arr, LAMBDA f : ~invalidType(f) /\ ~tooBig(f))
    IN  IF Len(current \o ok) > CLIENT_MAX_FILES
        THEN [files |-> current, error |-> "Too many files. Max is 40 per batch."]
        ELSE [files |-> current \o ok, error |-> ""]

\* normalizeFileList: the files and the error it leaves.
normalized(current, arr) ==
    LET wrong == firstWith(arr, {i \in 1..Len(arr) : invalidType(arr[i])})
        big == firstWith(arr, {i \in 1..Len(arr) : tooBig(arr[i])})
        merged == current \o arr
    IN  IF wrong # <<>>
        THEN [files |-> current,
              error |-> "Unsupported file type: " \o wrong[1].name \o " ("
                            \o wrong[1].type \o ")."]
        ELSE IF big # <<>>
        THEN [files |-> current, error |-> "File too large: " \o big[1].name \o "."]
        ELSE IF Len(merged) > CLIENT_MAX_FILES
        THEN [files |-> current, error |-> "Too many files. Max is 40 per batch."]
        ELSE [files |-> merged, error |-> ""]

\* The items processFilesInBatches returns for the files: each named after
\* its output size and MIME (the encoder supports every MIME asked for).
processed(fs, fmt) ==
    [i \in 1..Len(fs) |->
        LET f == fs[i]
            safe == safeTarget(PageWidth, PageHeight, f.width, f.height, FALSE)
            l == computeTargetSize(f.width, f.height, safe[1], safe[2], "inside")
            mime == pickOutputMime(f.type, fmt)
        IN  [source |-> f.name, type |-> f.type,
             filename |-> itemFilename(f.name, l.outW, l.outH, extFromMime(mime))]]

\* onProgress of generatePreview: setProgress(prev => ({ ...prev, ... }))
onProgress(prev, event) ==
    [prev EXCEPT !.phase = "processing", !.total = event.total, !.done = event.done,
                 !.currentFileName = event.currentFileName]

\* The progress state after the events of one turn of processFilesInBatches.
afterEvents(prev, evs) == IF evs = <<>> THEN prev ELSE onProgress(prev, evs[Len(evs)])

namesOf(fs) == [i \in 1..Len(fs) |-> fs[i].name]

\* Faulty variant: after the preview the fresh items are read.
listAfterPreviewFresh(captured, current) == current

\* `list = items` after `await generatePreview()`: items is the constant of
\* the render in which downloadZip was created.
listAfterPreview(captured, current) == captured

\* Faulty variant: the progress is reset on the success path only.
finallyIdleOnSuccess(current, threw) == IF threw THEN current ELSE IdleProgress

\* finally { setProgress({ phase: "idle", total: 0, done: 0, ... }) }
finallyIdle(current, threw) == IdleProgress

\* downloadZip from `setProgress({ phase: "zipping", ... })` to its await of
\* zip.generateAsync: the progress left by the loop.
zippingProgress(list) ==
    [phase |-> "zipping", total |-> Len(list), done |-> Len(list) - 1,
     currentFileName |-> list[Len(list)].filename]

\* An invocation: its kind, where it is, whether it began with no item, and
\* the constants and locals it holds while it runs.
NoRun == [kind |-> "", pc |-> "done", empty |-> TRUE, files |-> <<>>, fmt |-> "keep",
          list |-> <<>>, start |-> 0, entries |-> <<>>]

\* An invocation that has returned: its locals are gone.
returned(r) == [NoRun EXCEPT !.kind = r.kind, !.empty = r.empty]

\* processFilesInBatches as generatePreview calls it, up to its first await.
batchStarted(fs) ==
    LET n == Len(fs)
    IN  <<Progress(n, 0, NoFileName)>>
            \o startEvents(n, 0, namesOf(fs), 0, sliceLast(0, DEFAULT_BATCH_SIZE, n))

\* normalizeFileList called with one of the lists (a drop or a choice of files).
addFiles(lists) ==
    /\ adds < MaxAdds
    /\ \E arr \in lists :
          LET r == normalized(pageFiles, arr)
          IN  /\ lastAdd' = arr
              /\ pageFiles' = r.files
              /\ pageError' = r.error
    /\ adds' = adds + 1
    /\ UNCHANGED <<pageFormat, items, progress, runs, downloads, removes>>
    /\ UNCHANGED <<itemVars, serverVars, batchVars, qualityVars>>

normalizeFileList == addFiles(AddLists)

normalizeFileListAny == addFiles(SelectionLists)

\* The Remove button of a listed file (disabled while busy).
removeFile ==
    /\ ~busy
    /\ removes < MaxRemoves
    /\ removes' = removes + 1
    /\ \E index \in 0..(Len(pageFiles) - 1) :
          pageFiles' = [i \in 1..(Len(pageFiles) - 1) |->
                           IF i <= index THEN pageFiles[i] ELSE pageFiles[i + 1]]
    /\ UNCHANGED <<pageFormat, items, pageError, progress, runs, downloads, adds>>
    /\ lastAdd' = <<>>
    /\ UNCHANGED <<itemVars, serverVars, batchVars, qualityVars>>

\* The Clear button (disabled only while busy with no file selected).
clearAll ==
    /\ ~(busy /\ Len(pageFiles) = 0)
    /\ pageFiles' = <<>>
    /\ items' = <<>>
    /\ pageError' = ""
    /\ progress' = IdleProgress
    /\ UNCHANGED <<pageFormat, runs, downloads, adds, removes>>
    /\ lastAdd' = <<>>
    /\ UNCHANGED <<itemVars, serverVars, batchVars, qualityVars>>

\* The Clear preview button.
clearResults ==
    /\ items # <<>> /\ ~busy
    /\ items' = <<>>
    /\ UNCHANGED <<pageFiles, pageFormat, pageError, progress, runs, downloads, adds,
                   removes>>
    /\ lastAdd' = <<>>
    /\ UNCHANGED <<itemVars, serverVars, batchVars, qualityVars>>

\* The format select (disabled while busy).
setFormat ==
    /\ ~busy
    /\ \E f \in PageFormats \ {pageFormat} : pageFormat' = f
    /\ UNCHANGED <<pageFiles, items, pageError, progress, runs, downloads, adds, removes>>
    /\ lastAdd' = <<>>
    /\ UNCHANGED <<itemVars, serverVars, batchVars, qualityVars>>

\* The Generate preview button (disabled unless canRun and not busy), up to
\* the await of processFilesInBatches.
generatePreview ==
    /\ canRun(pageFiles, PageWidth, PageHeight) /\ ~busy
    /\ Len(runs) < MaxInvocations
    /\ pageError' = ""
    /\ items' = <<>>
    /\ progress' = afterEvents([IdleProgress EXCEPT !.phase = "processing",
                                                    !.total = Len(pageFiles)],
                               batchStarted(pageFiles))
    /\ runs' = Append(runs, [NoRun EXCEPT !.kind = "preview", !.pc = "batch",
                                          !.empty = (Len(items) = 0),
                                          !.files = pageFiles, !.fmt = pageFormat])
    /\ UNCHANGED <<pageFiles, pageFormat, downloads, adds, removes>>
    /\ lastAdd' = <<>>
    /\ UNCHANGED <<itemVars, serverVars, batchVars, qualityVars>>

\* The Download ZIP button (same condition), up to its first await: of
\* generatePreview when there is no item, of zip.generateAsync otherwise.
downloadZip ==
    /\ canRun(pageFiles, PageWidth, PageHeight) /\ ~busy
    /\ Len(runs) < MaxInvocations
    /\ pageError' = ""
    /\ IF Len(items) = 0
       THEN /\ items' = <<>>
            /\ progress' = afterEvents([IdleProgress EXCEPT !.phase = "processing",
                                                            !.total = Len(pageFiles)],
                                       batchStarted(pageFiles))
            /\ runs' = Append(runs, [NoRun EXCEPT !.kind = "zip", !.pc = "batch",
                                                  !.files = pageFiles,
                                                  !.fmt = pageFormat, !.list = items])
       ELSE /\ items' = items
            /\ progress' = zippingProgress(items)
            /\ runs' = Append(runs, [NoRun EXCEPT !.kind = "zip", !.pc = "zipping",
                                                  !.empty = FALSE, !.list = items,
                                                  !.entries = zipOf(items, <<>>)])
    /\ UNCHANGED <<pageFiles, pageFormat, downloads, adds, removes>>
    /\ lastAdd' = <<>>
    /\ UNCHANGED <<itemVars, serverVars, batchVars, qualityVars>>

\* The group a run awaits is fulfilled: processFilesInBatches reports it and
\* starts the next group, or returns; then generatePreview sets the items
\* and resets the progress, and a downloadZip that awaited it goes on with
\* the items it had captured.
batchAdvances ==
    /\ \E k \in 1..Len(runs) :
          LET r == runs[k]
              n == Len(r.files)
              last == sliceLast(r.start, DEFAULT_BATCH_SIZE, n)
              next == r.start + DEFAULT_BATCH_SIZE
              completed == completionEvents(n, r.start, last - r.start)
              list == listAfterPreview(r.list, processed(r.files, r.fmt))
          IN  /\ r.pc = "batch"
              /\ IF next < n
                 THEN /\ progress' =
                            afterEvents(progress,
                                        completed \o startEvents(n, last, namesOf(r.files),
                                                                 next,
                                                                 sliceLast(next,
                                                                     DEFAULT_BATCH_SIZE, n)))
                      /\ runs' = [runs EXCEPT ![k].start = next]
                      /\ items' = items
                 ELSE /\ items' = processed(r.files, r.fmt)
                      /\ IF r.kind = "zip" /\ Len(list) # 0
                         THEN /\ progress' = zippingProgress(list)
                              /\ runs' = [runs EXCEPT ![k].pc = "zipping",
                                                      ![k].start = next,
                                                      ![k].list = list,
                                                      ![k].entries = zipOf(list, <<>>)]
                         ELSE /\ progress' = finallyIdle(afterEvents(progress, completed),
                                                         FALSE)
                              /\ runs' = [runs EXCEPT ![k] = returned(r)]
    /\ UNCHANGED <<pageFiles, pageFormat, pageError, downloads, adds, removes>>
    /\ lastAdd' = <<>>
    /\ UNCHANGED <<itemVars, serverVars, batchVars, qualityVars>>

\* An item of the group a run awaits fails: generatePreview shows the
\* message and resets the progress; a downloadZip that awaited it returns.
batchRejects ==
    /\ \E k \in 1..Len(runs), message \in {DECODE_ERROR, CANVAS_ERROR, ENCODE_ERROR} :
          /\ runs[k].pc = "batch"
          /\ pageError' = message
          /\ progress' = finallyIdle(progress, TRUE)
          /\ runs' = [runs EXCEPT ![k] = returned(runs[k])]
    /\ UNCHANGED <<pageFiles, pageFormat, items, downloads, adds, removes>>
    /\ lastAdd' = <<>>
    /\ UNCHANGED <<itemVars, serverVars, batchVars, qualityVars>>

\* zip.generateAsync resolves: the archive is downloaded.
zipResolves ==
    /\ \E k \in 1..Len(runs) :
          /\ runs[k].pc = "zipping"
          /\ downloads' = Append(downloads, [run |-> k, total |-> Len(runs[k].list),
                                             entries |-> runs[k].entries])
          /\ progress' = finallyIdle([progress EXCEPT !.phase = "zipping",
                                                      !.total = Len(runs[k].list),
                                                      !.done = Len(runs[k].list),
                                                      !.currentFileName = NoFileName],
                                     FALSE)
          /\ runs' = [runs EXCEPT ![k] = returned(runs[k])]
    /\ UNCHANGED <<pageFiles, pageFormat, items, pageError, adds, removes>>
    /\ lastAdd' = <<>>
    /\ UNCHANGED <<itemVars, serverVars, batchVars, qualityVars>>

\* zip.generateAsync rejects.
zipRejects ==
    /\ \E k \in 1..Len(runs) :
          /\ runs[k].pc = "zipping"
          /\ pageError' = "Failed to generate ZIP."
          /\ progress' = finallyIdle(progress, TRUE)
          /\ runs' = [runs EXCEPT ![k] = returned(runs[k])]
    /\ UNCHANGED <<pageFiles, pageFormat, items, downloads, adds, removes>>
    /\ lastAdd' = <<>>
    /\ UNCHANGED <<itemVars, serverVars, batchVars, qualityVars>>

PageNext ==
    \/ normalizeFileList
    \/ clearAll
    \/ clearResults
    \/ setFormat
    \/ generatePreview
    \/ downloadZip
    \/ batchAdvances
    \/ batchRejects
    \/ zipResolves
    \/ zipRejects

SpecPage == Init /\ [][PageNext]_vars

\* The handlers that change the selection.
SelectionNext ==
    \/ normalizeFileListAny
    \/ removeFile
    \/ clearAll

SpecSelection == Init /\ [][SelectionNext]_vars

\* The calls a run awaits complete.
PageFairness ==
    /\ WF_vars(batchAdvances \/ batchRejects)
    /\ WF_vars(zipResolves \/ zipRejects)

\* The handlers that start, advance and clear invocations.
RunNext ==
    \/ normalizeFileList
    \/ clearAll
    \/ generatePreview
    \/ downloadZip
    \/ batchAdvances
    \/ batchRejects
    \/ zipResolves
    \/ zipRejects

SpecPageFair == Init /\ [][RunNext]_vars /\ PageFairness



\* ------------------------------------------------------------ properties
\* r is the nearest integer to n / d (d > 0), a tie x.5 going up.
IsRound(r, n, d) == (2 * r - 1) * d <= 2 * n /\ 2 * n < (2 * r + 1) * d

\* r is max(1, the nearest integer to n / d).
IsRoundMin1(r, n, d) == IF 2 * n < d THEN r = 1 ELSE IsRound(r, n, d)

\* computeTargetSize has run (directly or inside renderAndEncode).
Computed == pc # "idle"

\* renderAndEncode has run its synchronous part.
Rendering ==
    pc \in {"isMimeSupported", "toBlob", "toBlobFallback", "returned", "thrown", "item"}

\* renderAndEncode got its 2d context, so it painted and drew.
Drawn == Rendering /\ error # "Canvas is not supported in this browser."

FullSource ==
    /\ layout.draw.sx = 0 /\ layout.draw.sy = 0
    /\ layout.draw.sw = args.srcW /\ layout.draw.sh = args.srcH

FullOutput ==
    /\ layout.draw.dx = 0 /\ layout.draw.dy = 0
    /\ layout.draw.dw = layout.outW /\ layout.draw.dh = layout.outH

ExactTarget == layout.outW = args.targetW /\ layout.outH = args.targetH

\* C1: with targetH absent, for every mode, outW = targetW and
\* outH = max(1, round(targetW * srcH / srcW)), and the full source is drawn
\* onto the full output.
C1_WidthOnly ==
    (Computed /\ args.targetH = Null) =>
        /\ layout.outW = args.targetW
        /\ IsRoundMin1(layout.outH, args.targetW * args.srcH, args.srcW)
        /\ FullSource
        /\ FullOutput

\* Scenario A under a mode other than the default: 1600x900, width 800 -> 800x450.
C1_Witness ==
    /\ pc = "layout"
    /\ args = [srcW |-> 1600, srcH |-> 900, targetW |-> 800, targetH |-> Null,
               mode |-> "cover"]
    /\ layout.outW = 800 /\ layout.outH = 450

\* C2: in cover mode the output is exactly targetW x targetH, the destination
\* is the whole canvas, and the crop is cropW = round(srcH * targetW / targetH),
\* cropX = round((srcW - cropW) / 2) with the full height when the source is
\* relatively wider, else cropH = round(srcW * targetH / targetW),
\* cropY = round((srcH - cropH) / 2) with the full width.
C2_CoverCrop ==
    (Computed /\ args.mode = "cover" /\ args.targetH # Null) =>
        /\ ExactTarget
        /\ FullOutput
        /\ IF args.srcW * args.targetH > args.targetW * args.srcH
           THEN /\ IsRound(layout.draw.sw, args.srcH * args.targetW, args.targetH)
                /\ IsRound(layout.draw.sx, args.srcW - layout.draw.sw, 2)
                /\ layout.draw.sy = 0 /\ layout.draw.sh = args.srcH
           ELSE /\ IsRound(layout.draw.sh, args.srcW * args.targetH, args.targetW)
                /\ IsRound(layout.draw.sy, args.srcH - layout.draw.sh, 2)
                /\ layout.draw.sx = 0 /\ layout.draw.sw = args.srcW

\* C3: in inside mode the output stays within the box, reaches it on at least
\* one axis (on both when the ratios are equal), and the full source is drawn
\* onto the full output.
C3_InsideFits ==
    (Computed /\ args.mode = "inside" /\ args.targetH # Null) =>
        /\ layout.outW <= args.targetW
        /\ layout.outH <= args.targetH
        /\ layout.outW = args.targetW \/ layout.outH = args.targetH
        /\ (args.srcW * args.targetH = args.targetW * args.srcH) => ExactTarget
        /\ FullSource
        /\ FullOutput

\* A wide source in a square box: the width reaches the box, the height does not.
C3_Witness ==
    /\ pc = "layout"
    /\ args = [srcW |-> 1600, srcH |-> 900, targetW |-> 800, targetH |-> 800,
               mode |-> "inside"]
    /\ layout.outW = 800 /\ layout.outH = 450

\* C4: in pad mode the canvas is exactly targetW x targetH, the drawn size is
\* the size inside mode gives for the same inputs, dx = round((targetW - dw) / 2),
\* dy = round((targetH - dh) / 2), and opposing margins differ by at most 1.
C4_PadCentered ==
    (Computed /\ args.mode = "pad" /\ args.targetH # Null) =>
        LET d == layout.draw
            i == computeTargetSize(args.srcW, args.srcH, args.targetW, args.targetH,
                                   "inside")
            right  == args.targetW - d.dw - d.dx
            bottom == args.targetH - d.dh - d.dy
        IN  /\ ExactTarget
            /\ FullSource
            /\ d.dw = i.outW /\ d.dh = i.outH
            /\ IsRound(d.dx, args.targetW - d.dw, 2)
            /\ IsRound(d.dy, args.targetH - d.dh, 2)
            /\ d.dx - right \in {-1, 0, 1}
            /\ d.dy - bottom \in {-1, 0, 1}

\* Scenario C: 1600x900 padded to 800x800 is an 800x450 image with dy = 175.
C4_Witness ==
    /\ pc = "layout"
    /\ args = [srcW |-> 1600, srcH |-> 900, targetW |-> 800, targetH |-> 800,
               mode |-> "pad"]
    /\ layout.draw.dw = 800 /\ layout.draw.dh = 450
    /\ layout.draw.dx = 0 /\ layout.draw.dy = 175

\* C5: in fill mode the output is exactly targetW x targetH whatever the
\* source ratio, and the full source is drawn onto the full output.
C5_FillExact ==
    (Computed /\ args.mode = "fill" /\ args.targetH # Null) =>
        /\ ExactTarget
        /\ FullSource
        /\ FullOutput

\* A 16:9 source filled into a square.
C5_Witness ==
    /\ pc = "layout"
    /\ args = [srcW |-> 1600, srcH |-> 900, targetW |-> 800, targetH |-> 800,
               mode |-> "fill"]
    /\ layout.outW = 800 /\ layout.outH = 800
    /\ layout.draw.sw = 1600 /\ layout.draw.sh = 900

\* C6: with allowEnlarge = false renderAndEncode hands computeTargetSize the
\* target clamped to the source, each axis on its own, for every mode; with
\* allowEnlarge = true the target is passed through unchanged.
C6_UpscaleGuard ==
    Rendering =>
        LET p  == params
            ew == IF p.allowEnlarge \/ p.targetW <= p.srcW THEN p.targetW ELSE p.srcW
            eh == IF p.allowEnlarge \/ p.targetH = Null \/ p.targetH <= p.srcH
                  THEN p.targetH ELSE p.srcH
        IN  /\ args = [srcW |-> p.srcW, srcH |-> p.srcH, targetW |-> ew,
                       targetH |-> eh, mode |-> p.mode]
            /\ layout = computeTargetSize(p.srcW, p.srcH, ew, eh, p.mode)
            /\ (/\ ~p.allowEnlarge
                /\ p.srcW = 500 /\ p.srcH = 500
                /\ p.targetW = 1000 /\ p.targetH = 2000)
               => (args.targetW = 500 /\ args.targetH = 500)

\* src 500x500, target 1000x2000, no enlarging: the effective target is 500x500.
C6_Witness ==
    /\ pc = "returned"
    /\ ~params.allowEnlarge
    /\ params.mode = "cover"
    /\ params.srcW = 500 /\ params.srcH = 500
    /\ params.targetW = 1000 /\ params.targetH = 2000
    /\ args.targetW = 500 /\ args.targetH = 500

\* C7: with allowEnlarge = false nothing is enlarged: the canvas is no larger
\* than the source and the destination rectangle no larger than the source
\* rectangle it samples.
C7_NeverEnlarged ==
    (Rendering /\ ~params.allowEnlarge) =>
        /\ layout.outW <= params.srcW
        /\ layout.outH <= params.srcH
        /\ layout.draw.dw <= layout.draw.sw
        /\ layout.draw.dh <= layout.draw.sh

\* A target larger than the source on both axes, enlarging disallowed.
C7_Witness ==
    /\ Rendering
    /\ ~params.allowEnlarge
    /\ params.mode = "pad"
    /\ params.targetH # Null
    /\ params.targetW > params.srcW /\ params.targetH > params.srcH
    /\ layout.outW = params.srcW /\ layout.outH = params.srcH

\* C8: the source rectangle lies inside the source image and the destination
\* rectangle inside the output canvas, for every mode.
C8_RectsInBounds ==
    Computed =>
        LET d == layout.draw
        IN  /\ d.sx >= 0 /\ d.sy >= 0
            /\ d.sx + d.sw <= args.srcW
            /\ d.sy + d.sh <= args.srcH
            /\ d.dx >= 0 /\ d.dy >= 0
            /\ d.dx + d.dw <= layout.outW
            /\ d.dy + d.dh <= layout.outH

\* Scenario B: the crop of a 1600x900 source for an 800x800 cover is
\* 900 wide at x = 350.
C8_Witness ==
    /\ pc = "layout"
    /\ args = [srcW |-> 1600, srcH |-> 900, targetW |-> 800, targetH |-> 800,
               mode |-> "cover"]
    /\ layout.draw.sx = 350 /\ layout.draw.sw = 900
    /\ layout.draw.sy = 0 /\ layout.draw.sh = 900

\* C9: every width and height computed by computeTargetSize is at least 1:
\* the output size and both rectangles, in every mode.
C9_DimsAtLeastOne ==
    Computed =>
        /\ layout.outW >= 1 /\ layout.outH >= 1
        /\ layout.draw.sw >= 1 /\ layout.draw.sh >= 1
        /\ layout.draw.dw >= 1 /\ layout.draw.dh >= 1

\* C10: once renderAndEncode has drawn, the calls on the canvas are a white
\* fillRect over the whole canvas followed by the drawImage when mode = pad
\* or the requested mime is image/jpeg (format jpeg, or keep on a JPEG
\* input), and the drawImage alone otherwise.  The params hold no colour.
C10_WhiteBackground ==
    Drawn =>
        LET white == [op |-> "fillRect", fillStyle |-> "#ffffff", x |-> 0, y |-> 0,
                      w |-> canvas.width, h |-> canvas.height]
            image == [op |-> "drawImage", draw |-> layout.draw]
            jpeg  == \/ params.outputFormat = "jpeg"
                     \/ params.outputFormat = "keep" /\ params.inputMime = "image/jpeg"
        IN  /\ canvas.width = layout.outW /\ canvas.height = layout.outH
            /\ canvas.ops = IF params.mode = "pad" \/ jpeg
                            THEN <<white, image>>
                            ELSE <<image>>
            /\ "fillStyle" \notin DOMAIN params

\* A JPEG input kept as JPEG in inside mode: white is painted first.
C10_Witness ==
    /\ pc = "returned"
    /\ params.mode = "inside"
    /\ params.outputFormat = "keep" /\ params.inputMime = "image/jpeg"
    /\ Len(canvas.ops) = 2
    /\ canvas.ops[1].op = "fillRect" /\ canvas.ops[2].op = "drawImage"

\* C11: when the probe says the requested mime is unsupported, or the encode
\* call returns null, the item is encoded as PNG and the result reports
\* image/png; otherwise it reports the requested mime.  The call throws the
\* encoding error only after the PNG fallback call returned null too.
C11_FormatFallback ==
    LET calls == encoder.toBlob
        unsupported == encoder.probe = "no" \/ (Len(calls) >= 1 /\ ~calls[1].blob)
    IN  /\ (encoder.probe = "no" /\ Len(calls) >= 1) => calls[1].mime = "image/png"
        /\ (encoder.probe = "yes" /\ Len(calls) >= 1) => calls[1].mime = requestedMime
        /\ Len(calls) = 2 => calls[2].mime = "image/png"
        /\ pc \in {"returned", "item"} =>
              /\ result.mime = IF unsupported THEN "image/png" ELSE requestedMime
              /\ calls[Len(calls)] = [mime |-> result.mime, blob |-> TRUE]
        /\ (pc = "thrown" /\ Drawn) =>
              /\ error = "Failed to encode the image."
              /\ Len(calls) = 2
              /\ ~calls[2].blob
        /\ (Len(calls) >= 1 /\ calls[Len(calls)].blob) => pc \in {"returned", "item"}

\* WebP requested, the probe says no: the item comes back as PNG.
C11_Witness ==
    /\ pc = "returned"
    /\ requestedMime = "image/webp"
    /\ encoder.probe = "no"
    /\ result.mime = "image/png"

\* The file names tried, with the name each has without its extension, and
\* the extension that goes with each MIME type.
StemOf(name) ==
    CASE name = "photo.png" -> "photo"
      [] name = "a.tar.gz" -> "a.tar"
      [] name = "noext" -> "noext"
      [] name = "a.png" -> "a"
      [] name = "a.b.jpeg" -> "a.b"
      [] name = "anim.gif" -> "anim"
      [] name = "big.png" -> "big"

ExtensionOf(mime) ==
    CASE mime = "image/jpeg" -> "jpg"
      [] mime = "image/png" -> "png"
      [] mime = "image/webp" -> "webp"
      [] mime = "image/avif" -> "avif"

\* The MIME type of the blob the encoder delivered.
DeliveredMime == encoder.toBlob[Len(encoder.toBlob)].mime

\* The browser names the item after the size of the canvas that was encoded
\* and the MIME type of the blob that was delivered.
ClientNamedByOutput ==
    pc = "item" =>
        item.filename = StemOf(item.name) \o "_" \o ToString(canvas.width) \o "x"
                            \o ToString(canvas.height) \o "." \o ExtensionOf(DeliveredMime)

\* C12 as stated: every produced item is named
\* {base}_{outputWidth}x{outputHeight}.{extension} with the actual output size
\* and the extension of the final MIME, in the browser and on the endpoint.
C12_NamedByOutputSize ==
    /\ ClientNamedByOutput
    /\ \A i \in 1..Len(srvResults) :
          LET r == srvResults[i]
          IN  r.filename = StemOf(srvFiles[i].name) \o "_" \o ToString(r.width) \o "x"
                               \o ToString(r.height) \o "." \o ExtensionOf(r.mime)

\* C12 (amended): in the browser every item is named
\* {base}_{outputWidth}x{outputHeight}.{extension} with the actual output size
\* and the extension of the final MIME; the endpoint names every result
\* {base}_{width}x{height}.{extension} with the width and height the request
\* asked for, "auto" standing for a height that was not sent, and the
\* extension of the result's MIME.
C12_Filenames ==
    /\ ClientNamedByOutput
    /\ \A i \in 1..Len(srvResults) :
          LET r == srvResults[i]
              asked == IF form.height \in {JsNull, Str("")} THEN "auto" ELSE form.height.s
          IN  r.filename = StemOf(srvFiles[i].name) \o "_" \o form.width.s \o "x" \o asked
                               \o "." \o ExtensionOf(r.mime)

\* The endpoint produced a 800 x 450 image for a request without a height,
\* from a file whose name has two dots.
C12_Witness ==
    /\ srvPc = "responded" /\ response.status = 200
    /\ form.height = JsNull
    /\ \E i \in 1..Len(srvResults) :
          /\ srvFiles[i].name = "a.b.jpeg"
          /\ srvResults[i].filename = "a.b_800xauto.jpg"
          /\ srvResults[i].width = 800 /\ srvResults[i].height = 450

\* C19: a request the endpoint answers with 400 has had none of its files
\* read, decoded or resized, whichever position the offending file has.
C19_NoWorkBeforeRejection == response.status = 400 => srvWork = <<>>

\* The request sends a valid width and no other option field.
OnlyWidth ==
    /\ form.width = Str("800")
    /\ \A k \in FormFields \ {"width"} : form[k] = JsNull

\* C20: every optional option takes its default when its form field is
\* omitted (mode inside, format kept, qualityScale 3, allowEnlarge false,
\* height absent), and a request that sends only a valid width passes the
\* validation of the options.
C20_DefaultsWhenOmitted ==
    /\ OnlyWidth => response.message # "Validation error"
    /\ srvPc \in {"files", "loop"} =>
          /\ form.height = JsNull => data.height = Null
          /\ form.mode = JsNull => data.mode = "inside"
          /\ form.format = JsNull => data.format = NoFormat
          /\ form.qualityScale = JsNull => data.qualityScale = 3
          /\ form.allowEnlarge = JsNull => data.allowEnlarge = FALSE

\* ------------------------------------------- properties of the batch call
Called == callPc # "idle"
InFlight(i) == tasks[i].stage \in {"decoding", "rendering"}
Settled(i) == tasks[i].stage \in {"fulfilled", "rejected"}
Quiescent == callPc \in {"returned", "rejected"} /\ \A i \in 1..Len(tasks) : ~InFlight(i)

\* The group file i belongs to, counted from 0 (batchSize >= 1).
GroupOf(i) == (i - 1) \div batchSize

\* The position in settled at which file i settled.
SettledAt(i) == CHOOSE k \in 1..Len(settled) : settled[k] = i

\* The progress events that advanced done.
Increments == {k \in 2..Len(events) : events[k].done = events[k - 1].done + 1}

\* C13: when the call succeeds the list returned has one item per input
\* file, the i-th made from the i-th file, whatever the order in which the
\* items of a group completed.
C13_InputOrder ==
    callPc = "returned" =>
        /\ Len(results) = Len(files)
        /\ \A i \in 1..Len(files) : results[i].source = files[i]

\* A call of several files succeeded although a later file completed first.
C13_Witness ==
    /\ callPc = "returned" /\ Len(files) >= 3
    /\ \E j, k \in 1..Len(settled) : j < k /\ settled[j] > settled[k]

\* C14: the files are processed in consecutive groups of batchSize (the last
\* may be shorter; 12 files by 5 give 5, 5, 2); no item of a group is started
\* before every item of the groups before it has completed, so at most
\* batchSize items are in flight.
C14_GroupsSequential ==
    /\ <<sliceLast(0, 5, 12) - 0, sliceLast(5, 5, 12) - 5, sliceLast(10, 5, 12) - 10>>
          = <<5, 5, 2>>
    /\ Called =>
          /\ Cardinality({i \in 1..Len(files) : InFlight(i)}) <= batchSize
          /\ batchSize = 0 => \A i \in 1..Len(files) : tasks[i].stage = "pending"
          /\ batchSize >= 1 =>
                \A i, j \in 1..Len(files) :
                    /\ (GroupOf(j) < GroupOf(i) /\ tasks[i].stage # "pending")
                          => tasks[j].stage = "fulfilled"
                    /\ GroupOf(i) = GroupOf(j)
                          => (tasks[i].stage = "pending" <=> tasks[j].stage = "pending")

\* The second group of a call is in flight with two items undecided.
C14_Witness ==
    /\ callPc = "group" /\ start >= 2 /\ batchSize >= 2
    /\ Cardinality({i \in 1..Len(files) : InFlight(i)}) = 2

\* C15: every progress event of a call carries total = the number of files;
\* done starts at 0, never decreases, never skips a value, is not reset
\* between groups, and is total at the end of a call that succeeds.
C15_ProgressMonotonic ==
    Called =>
        /\ Len(events) >= 1
        /\ events[1].done = 0
        /\ \A k \in 1..Len(events) : events[k].total = Len(files)
        /\ \A k \in 2..Len(events) :
              events[k].done \in {events[k - 1].done, events[k - 1].done + 1}
        /\ callPc = "returned" => events[Len(events)].done = Len(files)

\* A call of three groups succeeded.
C15_Witness ==
    /\ callPc = "returned" /\ Len(files) = 4 /\ batchSize = 2
    /\ events[Len(events)].done = 4

\* Each file that was started has been named by a progress event, and no
\* file is named before it is started.
NamedBeforeStart ==
    \A i \in 1..Len(files) :
        /\ tasks[i].stage # "pending" <=>
              \E k \in 1..Len(events) : events[k].currentFileName = files[i]
        /\ tasks[i].stage # "pending" =>
              events[tasks[i].named].currentFileName = files[i]

C17_FailFast ==
    /\ callPc = "rejected" <=> \E i \in 1..Len(tasks) : tasks[i].stage = "rejected"
    /\ callPc = "rejected" =>
          /\ tasks[rejection.file].stage = "rejected"
          /\ rejection.message = tasks[rejection.file].message
          /\ rejection.message \in {DECODE_ERROR, CANVAS_ERROR, ENCODE_ERROR}
          /\ \A i \in 1..Len(files) :
                /\ tasks[i].stage = "rejected"
                      => SettledAt(rejection.file) <= SettledAt(i)
                /\ GroupOf(i) > GroupOf(rejection.file) => tasks[i].stage = "pending"

\* A decode failed in the first group of a call that has a second group, and
\* every item of the first group has settled.
C17_Witness ==
    /\ Quiescent /\ callPc = "rejected" /\ rejection.message = DECODE_ERROR
    /\ start = 0 /\ batchSize = 2 /\ Len(files) = 4
    /\ tasks[3].stage = "pending"

\* C18: every bitmap that was decoded is closed exactly once, when its
\* renderAndEncode has completed or thrown and never before it is drawn, also
\* in a group in which another item failed: a bitmap is open only while its
\* item is in flight.
C18_BitmapClosed ==
    \A i \in 1..Len(tasks) :
        LET ops == tasks[i].ops
        IN  /\ ops \in {<<>>, <<"decode", "draw">>, <<"decode", "draw", "close">>,
                        <<"decode", "close">>}
            /\ ops = <<"decode", "draw">> <=> tasks[i].stage = "rendering"
            /\ tasks[i].stage = "fulfilled" => ops = <<"decode", "draw", "close">>
            /\ ops = <<>> =>
                  \/ tasks[i].stage \in {"pending", "decoding"}
                  \/ tasks[i].stage = "rejected" /\ tasks[i].message = DECODE_ERROR

\* The encode of an item failed and rejected the call; another item of the
\* group completed after that, and both bitmaps are closed.
C18_Witness ==
    /\ Quiescent /\ callPc = "rejected" /\ rejection.message = ENCODE_ERROR
    /\ tasks[rejection.file].ops = <<"decode", "draw", "close">>
    /\ \E i \in 1..Len(tasks) :
          /\ tasks[i].stage = "fulfilled"
          /\ GroupOf(i) = GroupOf(rejection.file)
          /\ SettledAt(i) > SettledAt(rejection.file)

\* text occurs in s
Mentions(s, text) ==
    \E i \in 1..(Len(s) - Len(text) + 1) : SubSeq(s, i, i + Len(text) - 1) = text

\* C23: mapQuality01 maps 1, 2, 3, 4, 5 to 0.40, 0.60, 0.75, 0.85, 0.92 and
\* every other value to 0.75, and mapQuality returns exactly 100 times that
\* for every input (40, 60, 75, 85, 92, otherwise 75).
C23_QualityTable ==
    /\ quality.pc # "idle" =>
          quality.client.den = 100 /\ quality.client.num =
              (CASE quality.scale = 1 -> 40
                 [] quality.scale = 2 -> 60
                 [] quality.scale = 3 -> 75
                 [] quality.scale = 4 -> 85
                 [] quality.scale = 5 -> 92
                 [] OTHER -> 75)
    /\ quality.pc = "server" =>
          quality.server * quality.client.den = 100 * quality.client.num

\* Both functions were called on 4.
C23_Witness ==
    /\ quality.pc = "server" /\ quality.scale = 4
    /\ quality.client = [num |-> 85, den |-> 100] /\ quality.server = 85

\* C21: when an item fails the operation is aborted and the error the
\* caller gets identifies the file that failed and the stage (decode or
\* encode), in the browser and on the endpoint.
C21_ErrorNamesFileAndStage ==
    /\ callPc = "rejected" =>
          /\ Mentions(rejection.message, files[rejection.file])
          /\ Mentions(rejection.message, "decode") \/ Mentions(rejection.message, "encode")
    /\ (response.status = 500 /\ srvWork # <<>>) =>
          /\ Mentions(response.message, srvFiles[srvWork[Len(srvWork)].file].name)
          /\ Mentions(response.message, "decode") \/ Mentions(response.message, "encode")

\* C22: computeTargetSize of an image that already has the target size, in
\* mode inside or fill, returns that size and a draw whose source and
\* destination rectangles are the whole image.
C22_Idempotent ==
    (/\ pc = "layout"
     /\ args.mode \in {"inside", "fill"}
     /\ args.targetW = args.srcW /\ args.targetH = args.srcH) =>
        layout = [outW |-> args.srcW, outH |-> args.srcH,
                  draw |-> [sx |-> 0, sy |-> 0, sw |-> args.srcW, sh |-> args.srcH,
                            dx |-> 0, dy |-> 0, dw |-> args.srcW, dh |-> args.srcH]]

\* computeTargetSize returned for a 5 x 3 image and the target 5 x 3 in mode
\* fill.
C22_Witness ==
    /\ pc = "layout" /\ args.mode = "fill"
    /\ args.srcW = 5 /\ args.srcH = 3 /\ args.targetW = 5 /\ args.targetH = 3
    /\ layout.outW = 5 /\ layout.outH = 3

\* C24: done is advanced only once every item of the current group has
\* completed: while a group is in flight done is the number of files of the
\* earlier groups, every event that names a file reports that number, and
\* done changes only in the step that follows the fulfilment of the group.
C24_DoneAfterGroup ==
    /\ [](callPc = "group" =>
            /\ done = start
            /\ events[Len(events)].done = start
            /\ \A i \in 1..Len(files) :
                  tasks[i].stage # "pending" =>
                      events[tasks[i].named].done = GroupOf(i) * batchSize)
    /\ [][done' # done =>
            /\ callPc = "group"
            /\ \A i \in (start + 1)..Min(start + batchSize, Len(files)) :
                  tasks[i].stage = "fulfilled"
            /\ done' = Min(start + batchSize, Len(files))]_vars

\* An item of the second group has completed while another has not, and done
\* is still the size of the first group.
C24_Witness ==
    /\ callPc = "group" /\ Len(files) = 4 /\ batchSize = 2 /\ start = 2 /\ done = 2
    /\ tasks[3].stage = "fulfilled" /\ InFlight(4)
    /\ events[Len(events)] = Progress(4, 2, files[4])

\* C25: for a list that is not empty, whose decode and encode calls all
\* complete, the call returns or rejects when batchSize >= 1; with
\* batchSize = 0 the group loop never advances and the call never finishes.
C25_FinishesIffPositive ==
    /\ [](callPc = "group" /\ batchSize >= 1 => <>(callPc \in {"returned", "rejected"}))
    /\ [](callPc = "group" /\ batchSize = 0 =>
            [](callPc = "group" /\ start = 0 /\ done = 0))

\* A call of three files with batchSize 0 awaits its empty group.
C25_Witness ==
    /\ callPc = "group" /\ batchSize = 0 /\ Len(files) = 3
    /\ start = 0 /\ \A i \in 1..3 : tasks[i].stage = "pending"

\* ------------------------------------------------------------------ page
\* The invocations of generatePreview and downloadZip that have not returned.
Running == {k \in 1..Len(runs) : runs[k].pc # "done"}

\* C26: once the results are empty and the progress is idle (as clearAll
\* leaves them, also while a batch is in flight), they stay so until a new
\* invocation of generatePreview or downloadZip starts.
C26_ClearedUntilStarted ==
    [][(items = <<>> /\ progress = IdleProgress /\ Len(runs') = Len(runs))
          => (items' = <<>> /\ progress' = IdleProgress)]_vars

\* C27: a downloadZip that began with no item never reaches the zipping
\* phase and no archive comes from it: every archive downloaded comes from a
\* downloadZip that began with items.
C27_ZipOnlyFromItems ==
    /\ \A k \in 1..Len(runs) :
          (runs[k].kind = "zip" /\ runs[k].empty) => runs[k].pc # "zipping"
    /\ \A d \in 1..Len(downloads) :
          runs[downloads[d].run].kind = "zip" /\ ~runs[downloads[d].run].empty

\* A downloadZip that began with no item has returned after its preview
\* filled the items, and nothing was downloaded.
C27_Witness ==
    /\ \E k \in 1..Len(runs) :
          runs[k].kind = "zip" /\ runs[k].empty /\ runs[k].pc = "done"
    /\ Len(items) = DEFAULT_BATCH_SIZE + 1
    /\ pageError = ""
    /\ downloads = <<>>

\* C28: the progress is in the processing or zipping phase only while an
\* invocation of generatePreview or downloadZip is running; the step in
\* which an invocation returns leaves the progress idle with total 0 and
\* done 0; and, the awaited calls completing, every invocation returns (no
\* invocation is running, again and again).
C28_ProgressEndsIdle ==
    /\ [](busy => Running # {})
    /\ [][\A k \in 1..Len(runs) :
             (runs[k].pc # "done" /\ runs'[k].pc = "done")
                 => (progress'.phase = "idle" /\ progress'.total = 0
                        /\ progress'.done = 0)]_vars
    /\ []<>(Running = {})

\* An invocation has returned through its catch block, and the progress is idle.
C28_Witness ==
    /\ Len(runs) = 1 /\ runs[1].pc = "done"
    /\ pageError = ENCODE_ERROR
    /\ progress = IdleProgress

\* A file normalizeFileList accepts.
Acceptable(f) == f.type \in ACCEPTED_MIMES /\ f.size <= CLIENT_MAX_SIZE_PER_FILE

\* C29: whatever normalizeFileList, removeFile and clearAll calls were made,
\* the selection has at most MAX_FILES files, each of an accepted type and
\* of at most MAX_SIZE_PER_FILE bytes; and a call of normalizeFileList with
\* a file that is not acceptable, or with more files than the selection can
\* still hold, leaves the selection as it was and sets the error.
C29_SelectionValid ==
    /\ [](/\ Len(pageFiles) <= CLIENT_MAX_FILES
          /\ \A i \in 1..Len(pageFiles) : Acceptable(pageFiles[i]))
    /\ [][(/\ adds' = adds + 1
           /\ \/ \E i \in 1..Len(lastAdd') : ~Acceptable(lastAdd'[i])
              \/ Len(pageFiles) + Len(lastAdd') > CLIENT_MAX_FILES)
             => (pageFiles' = pageFiles /\ pageError' # "")]_vars

\* Two acceptable files were added to a selection of MAX_FILES - 1 files:
\* none was taken.
C29_Witness ==
    /\ Len(pageFiles) = CLIENT_MAX_FILES - 1
    /\ lastAdd = <<APng, AJpg>>
    /\ pageError = "Too many files. Max is 40 per batch."

\* C30: items made from files of different names have different output file
\* names, and every archive downloaded has one entry for each item that was
\* put into it.
C30_OneEntryPerItem ==
    /\ \A i, j \in 1..Len(items) :
          items[i].source # items[j].source => items[i].filename # items[j].filename
    /\ \A d \in 1..Len(downloads) : Len(downloads[d].entries) = downloads[d].total

====
